---- MODULE Spec2Model ----
(***************************************************************************)
(* Model of netavark's `setup` command (src/src/commands/setup.rs).        *)
(*                                                                         *)
(* Setup::exec is a strictly sequential procedure.  Every call it makes to *)
(* a collaborator (namespace validation, config load, firewall driver      *)
(* probe, sysctl read, sysctl write, network constructor, firewall driver  *)
(* call, println) is one step of the model; the pure code between two      *)
(* calls is folded into the step that precedes it.  Each invocation has a  *)
(* program counter, the locals of exec, and a log of the calls it made;    *)
(* the host has a sysctl table, a firewall rule store and the set of       *)
(* networks whose interfaces were created.                                 *)
(***************************************************************************)
EXTENDS Integers, Sequences, FiniteSets, TLC

VARIABLES
    pc,           \* per invocation: the call exec is about to make
    opts,         \* per invocation: network_options (setup.rs:41)
    idx,          \* per invocation: position of the iterator of setup.rs:66
    sysctl_read,  \* per invocation: sysctl_ipv4 / sysctl_localnet (setup.rs:58,107)
    response,     \* per invocation: the response map (setup.rs:63)
    result,       \* per invocation: what exec returned, or that it panicked
    stdout,       \* per invocation: the lines printed on the success channel
    log,          \* per invocation: the collaborator calls made, in order
    sysctl,       \* host: the kernel parameter table
    fw_rules,     \* host: the firewall rule store
    host_nets     \* host: <<namespace, network>> pairs with interfaces created

vars == <<pc, opts, idx, sysctl_read, response, result, stdout, log,
          sysctl, fw_rules, host_nets>>

----------------------------------------------------------------------------
(* Bounds of the model.                                                    *)

\* longest static-IP list and longest subnet list of a network
MaxList == 2
\* longest port-mapping list
MaxPorts == 1

\* the invocations; only those in Active run under a given specification
Procs == {1, 2}

\* the network names of network_info, in insertion order
NetNames == <<"podman", "mv0">>

\* host interfaces a network may be bound to
Ifaces == {"eth0"}

----------------------------------------------------------------------------
(* Program constants and data types.                                       *)

IPV4_FORWARD == "net.ipv4.ip_forward"

\* crate::firewall::iptables::MAX_HASH_SIZE, imported at setup.rs:4
MAX_HASH_SIZE == 13

\* Option<T>; NoneStr is the None of an Option<String>
None == [some |-> FALSE, val |-> <<>>]
NoneStr == [some |-> FALSE, val |-> ""]
Some(v) == [some |-> TRUE, val |-> v]

StaticIp(i) == "10.88.0." \o ToString(4 + i)
SubnetOf(i) == [subnet |-> "10.88." \o ToString(i - 1) \o ".0/24"]
PortMappingOf(i) == [host_port |-> 8079 + i, container_port |-> 79 + i,
                     protocol |-> "tcp"]

\* PerNetworkOptions.static_ips: Option<Vec<IpAddr>>
OptStaticIps == {None} \cup {Some([i \in 1..k |-> StaticIp(i)]) : k \in 0..MaxList}
\* Network.subnets: Option<Vec<Subnet>>
OptSubnets == {None} \cup {Some([i \in 1..k |-> SubnetOf(i)]) : k \in 0..MaxList}
\* NetworkOptions.port_mappings: Option<Vec<PortMapping>>
OptPortMappings ==
    {None} \cup {Some([i \in 1..k |-> PortMappingOf(i)]) : k \in 0..MaxPorts}
\* Network.network_interface: Option<String>
OptIface == {NoneStr} \cup {Some(i) : i \in Ifaces}

\* The networks the load may yield, with the PerNetworkOptions entry of the
\* same name (pno.some = FALSE: the `networks` map has no entry for it).
\* Fields exec never reads for a driver are held fixed.
BridgeInputs ==
    {[network |-> [driver |-> "bridge", network_interface |-> ifc, subnets |-> sn],
      pno |-> pno] :
        ifc \in OptIface, sn \in OptSubnets,
        pno \in {None} \cup {Some([static_ips |-> ips]) : ips \in OptStaticIps}}
MacvlanInputs ==
    {[network |-> [driver |-> "macvlan", network_interface |-> ifc,
                   subnets |-> Some(<<SubnetOf(1)>>)],
      pno |-> pno] :
        ifc \in OptIface, pno \in {None, Some([static_ips |-> None])}}
UnknownInputs ==
    {[network |-> [driver |-> "vlan99", network_interface |-> NoneStr,
                   subnets |-> None],
      pno |-> None]}
NetInputs == BridgeInputs \cup MacvlanInputs \cup UnknownInputs

EmptyMap == [n \in {} |-> None]
MapPut(m, k, v) == [n \in DOMAIN m \cup {k} |-> IF n = k THEN v ELSE m[n]]

NameIndex(n) == CHOOSE i \in 1..Len(NetNames) : NetNames[i] = n

ContainerId(p) == "ctr" \o ToString(p)
NamespacePath(p) == "/run/netns/ns" \o ToString(p)

\* NetworkOptions built from one input per network, in insertion order
MkOptions(p, f, pm) ==
    [container_id |-> ContainerId(p),
     network_info |-> [i \in DOMAIN f |->
                          [name |-> NetNames[i], network |-> f[i].network]],
     networks |-> [n \in {NetNames[i] : i \in {j \in DOMAIN f : f[j].pno.some}} |->
                      f[NameIndex(n)].pno.val],
     port_mappings |-> pm]

\* what NetworkOptions::load may return for invocation p
LoadableOptions(p) ==
    {MkOptions(p, f, pm) :
        f \in UNION {[1..k -> NetInputs] : k \in 0..Len(NetNames)},
        pm \in OptPortMappings}

\* the networks of a container that is set up while another is: well
\* formed, with an address of its own, in every combination of one or two bridge and macvlan networks
PairInputs(p) ==
    {[network |-> [driver |-> d, network_interface |-> NoneStr,
                   subnets |-> Some(<<SubnetOf(1)>>)],
      pno |-> Some([static_ips |-> Some(<<StaticIp(p)>>)])] :
        d \in {"bridge", "macvlan"}}

PairOptions(p) ==
    {MkOptions(p, f, pm) :
        f \in UNION {[1..k -> PairInputs(p)] : k \in 1..Len(NetNames)},
        pm \in {None, Some(<<PortMappingOf(1)>>)}}

NoOptions == [container_id |-> "", network_info |-> <<>>,
              networks |-> EmptyMap, port_mappings |-> None]

\* setup.rs:106
LocalnetPath(i) == "net.ipv4.conf." \o i \o ".route_localnet"

SysctlKeys == {IPV4_FORWARD} \cup {LocalnetPath(i) : i \in Ifaces}
SysctlValues == {"0", "1"}

\* Result<(), Box<dyn Error>> of exec, or the unwinding of a panic
Running == [kind |-> "running", msg |-> "", errno |-> 0]
Ok == [kind |-> "ok", msg |-> "", errno |-> 0]
Err(msg, errno) == [kind |-> "err", msg |-> msg, errno |-> errno]
Panicked(msg) == [kind |-> "panic", msg |-> msg, errno |-> 0]

\* one collaborator call: what was called, for which network, with what
Call(op, net, arg, ok) == [op |-> op, net |-> net, arg |-> arg, ok |-> ok]

----------------------------------------------------------------------------
(* Collaborators of exec whose code is outside setup.rs, as contracts.     *)

\* hex digest of a network name (stand-in for the digest the Hash Service
\* computes; distinct names of the model get distinct digests)
Digest(name) ==
    CASE name = "podman" -> "5C1D7E9A"
      [] name = "mv0"    -> "B07F3A21"
      [] OTHER           -> "00000000"

\* CoreUtils::create_network_hash(name, length): deterministic, of the
\* requested length, made of characters legal in chain names
create_network_hash(name, length) == SubSeq("NETAVARK-" \o Digest(name), 1, length)

\* the StatusBlock a Network Constructor returns on success
StatusBlock(variant, per_network_opts, network, netns) ==
    [driver |-> variant, netns |-> netns,
     static_ips |-> per_network_opts.static_ips,
     interface |-> network.network_interface]

----------------------------------------------------------------------------
(* The locals of exec.                                                     *)

\* mutant of iter: the entries are yielded last-inserted first
iter_reversed(network_info) ==
    [i \in DOMAIN network_info |-> network_info[Len(network_info) + 1 - i]]

\* network_info.iter(): the entries of the mapping in the order it yields
\* them, which is the order of insertion
iter(network_info) == network_info

\* (net_name, network) the iterator of setup.rs:66 currently yields
Entry(p) == iter(opts[p].network_info)[idx[p]]
net_name(p) == Entry(p).name
network(p) == Entry(p).network
\* setup.rs:74-80, 138-144
per_network_opts(p) == opts[p].networks[net_name(p)]
\* mutant of id_network_hash: the handle is made unique to the container
id_network_hash_per_container(p) ==
    SubSeq(create_network_hash(net_name(p), MAX_HASH_SIZE - 4)
               \o opts[p].container_id, 1, MAX_HASH_SIZE)
\* setup.rs:89-92
id_network_hash(p) == create_network_hash(net_name(p), MAX_HASH_SIZE)

\* mutant of NeedsWrite: the write is issued whatever was read
NeedsWriteAlways(v) == TRUE

\* setup.rs:59, 108: the write is issued only when the value read differs
NeedsWrite(v) == v # "1"

\* mutant of SysctlKey: the per-network ensure reuses the global key
SysctlKeyAlwaysGlobal(p) == IPV4_FORWARD

\* the key read or written at the current position: setup.rs:58-60, 105-109
SysctlKey(p) ==
    IF pc[p] \in {"get_ip_forward", "set_ip_forward"}
    THEN IPV4_FORWARD
    ELSE LocalnetPath(network(p).network_interface.val)

\* the network a sysctl call is made for ("" for the global key)
SysctlNet(p) ==
    IF pc[p] \in {"get_ip_forward", "set_ip_forward"} THEN "" ELSE net_name(p)

\* Rust's &s[lo..hi] panics when hi is past the end of s
SliceInBounds(s, lo, hi) == lo <= hi /\ hi <= Len(s)
Slice(s, lo, hi) == SubSeq(s, lo + 1, hi)

\* mutant of PortForwardArgs: the last static IP and subnet are passed
PortForwardArgsLast(p) ==
    [container_id |-> opts[p].container_id,
     port_mappings |-> opts[p].port_mappings.val,
     container_ip |-> per_network_opts(p).static_ips.val[
                          Len(per_network_opts(p).static_ips.val)],
     subnet |-> network(p).subnets.val[Len(network(p).subnets.val)].subnet,
     network_name |-> net_name(p),
     id_network_hash |-> Slice(id_network_hash(p), 0, MAX_HASH_SIZE)]

\* mutant of PortForwardArgs: the prefix stops before the digest of the name
PortForwardArgsShortPrefix(p) ==
    [container_id |-> opts[p].container_id,
     port_mappings |-> opts[p].port_mappings.val,
     container_ip |-> per_network_opts(p).static_ips.val[1],
     subnet |-> network(p).subnets.val[1].subnet,
     network_name |-> net_name(p),
     id_network_hash |-> Slice(id_network_hash(p), 0, MAX_HASH_SIZE - 4)]

\* setup.rs:126-133: the arguments of setup_port_forward
PortForwardArgs(p) ==
    [container_id |-> opts[p].container_id,
     port_mappings |-> opts[p].port_mappings.val,
     container_ip |-> per_network_opts(p).static_ips.val[1],
     subnet |-> network(p).subnets.val[1].subnet,
     network_name |-> net_name(p),
     id_network_hash |-> Slice(id_network_hash(p), 0, MAX_HASH_SIZE)]

\* setup.rs:129-132: an index or slice out of range panics
PortForwardPanics(p) ==
    \/ Len(per_network_opts(p).static_ips.val) = 0
    \/ Len(network(p).subnets.val) = 0
    \/ ~SliceInBounds(id_network_hash(p), 0, MAX_HASH_SIZE)

----------------------------------------------------------------------------
(* Ways a step ends.                                                       *)

Logged(p, c) == log' = [log EXCEPT ![p] = Append(@, c)]

\* exec returns Err(e): `?`, bail!, return Err(..)
Return(p, r) ==
    /\ result' = [result EXCEPT ![p] = r]
    /\ pc' = [pc EXCEPT ![p] = "done"]

Goto(p, label) ==
    /\ pc' = [pc EXCEPT ![p] = label]
    /\ UNCHANGED result

\* the for loop of setup.rs:66 moves to the next network
Advance(p) ==
    /\ idx' = [idx EXCEPT ![p] = @ + 1]
    /\ Goto(p, "next_network")

----------------------------------------------------------------------------
(* The steps of Setup::exec.                                               *)

\* setup.rs:32-37
NsChecks(p) ==
    /\ pc[p] = "ns_checks"
    /\ \E ok \in BOOLEAN :
        IF ok
        THEN Goto(p, "load")
        ELSE Return(p, Err("invalid namespace path: " \o NamespacePath(p), 0))
    /\ UNCHANGED <<opts, idx, sysctl_read, response, stdout, log,
                   sysctl, fw_rules, host_nets>>

\* mutant of LoadError: the load failure is returned without its code
LoadErrorNoCode(e) == Err(e, 0)

\* setup.rs:44-47: NetavarkError { error: format!("{}", e), errno: 1 }
LoadError(e) == Err(e, 1)

\* setup.rs:41-49
Load(p) ==
    /\ pc[p] = "load"
    /\ \/ /\ \E o \in LoadableOptions(p) : opts' = [opts EXCEPT ![p] = o]
          /\ Goto(p, "get_firewall_driver")
       \/ /\ Return(p, LoadError("cannot load network options"))
          /\ UNCHANGED opts
    /\ UNCHANGED <<idx, sysctl_read, response, stdout, log,
                   sysctl, fw_rules, host_nets>>

\* setup.rs:41-49, when two invocations run on one host
LoadPair(p) ==
    /\ pc[p] = "load"
    /\ \/ /\ \E o \in PairOptions(p) : opts' = [opts EXCEPT ![p] = o]
          /\ Goto(p, "get_firewall_driver")
       \/ /\ Return(p, LoadError("cannot load network options"))
          /\ UNCHANGED opts
    /\ UNCHANGED <<idx, sysctl_read, response, stdout, log,
                   sysctl, fw_rules, host_nets>>

\* setup.rs:51-54
GetFirewallDriver(p) ==
    /\ pc[p] = "get_firewall_driver"
    /\ \E ok \in BOOLEAN :
        IF ok
        THEN Goto(p, "get_ip_forward")
        ELSE Return(p, Panicked("no supported firewall backend"))
    /\ UNCHANGED <<opts, idx, sysctl_read, response, stdout, log,
                   sysctl, fw_rules, host_nets>>

\* where exec continues once a key holds "1": setup.rs:63-66, 113
AfterEnsure(p) ==
    IF pc[p] \in {"get_ip_forward", "set_ip_forward"}
    THEN "next_network"
    ELSE "setup_port_forward"

\* get_sysctl_value at setup.rs:58 and setup.rs:107, with the test that
\* follows it (setup.rs:59, 108)
GetSysctlValue(p) ==
    /\ pc[p] \in {"get_ip_forward", "get_localnet"}
    /\ \E ok \in BOOLEAN :
        /\ Logged(p, Call("get_sysctl_value", SysctlNet(p),
                          [key |-> SysctlKey(p), val |-> sysctl[SysctlKey(p)]], ok))
        /\ IF ok
           THEN /\ sysctl_read' = [sysctl_read EXCEPT ![p] = sysctl[SysctlKey(p)]]
                /\ IF NeedsWrite(sysctl[SysctlKey(p)])
                   THEN Goto(p, IF pc[p] = "get_ip_forward"
                                THEN "set_ip_forward" ELSE "set_localnet")
                   ELSE Goto(p, AfterEnsure(p))
           ELSE /\ Return(p, Err("sysctl: cannot read " \o SysctlKey(p), 0))
                /\ UNCHANGED sysctl_read
    /\ UNCHANGED <<opts, idx, response, stdout, sysctl, fw_rules, host_nets>>

\* mutant of SetSysctlValue: the value that was read is written back
SetSysctlValueWritesBack(p) ==
    /\ pc[p] \in {"set_ip_forward", "set_localnet"}
    /\ \E ok \in BOOLEAN :
        /\ Logged(p, Call("set_sysctl_value", SysctlNet(p),
                          [key |-> SysctlKey(p), val |-> sysctl_read[p]], ok))
        /\ IF ok
           THEN /\ sysctl' = [sysctl EXCEPT ![SysctlKey(p)] = sysctl_read[p]]
                /\ Goto(p, AfterEnsure(p))
           ELSE /\ Return(p, Err("sysctl: cannot write " \o SysctlKey(p), 0))
                /\ UNCHANGED sysctl
    /\ UNCHANGED <<opts, idx, sysctl_read, response, stdout, fw_rules, host_nets>>

\* set_sysctl_value at setup.rs:60 and setup.rs:109
SetSysctlValue(p) ==
    /\ pc[p] \in {"set_ip_forward", "set_localnet"}
    /\ \E ok \in BOOLEAN :
        /\ Logged(p, Call("set_sysctl_value", SysctlNet(p),
                          [key |-> SysctlKey(p), val |-> "1"], ok))
        /\ IF ok
           THEN /\ sysctl' = [sysctl EXCEPT ![SysctlKey(p)] = "1"]
                /\ Goto(p, AfterEnsure(p))
           ELSE /\ Return(p, Err("sysctl: cannot write " \o SysctlKey(p), 0))
                /\ UNCHANGED sysctl
    /\ UNCHANGED <<opts, idx, sysctl_read, response, stdout, fw_rules, host_nets>>

\* mutant of UnknownDriverError: the message does not name the driver
UnknownDriverErrorUnnamed(driver) == Err("unknown network driver", 0)

\* setup.rs:155-159
UnknownDriverError(driver) == Err("unknown network driver " \o driver, 0)

\* setup.rs:66-80, 137-144, 153-160: the loop head, the dispatch on the
\* driver and the lookup of the per-network options
\* mutant of MissingOptionsError: the error does not say which network
MissingOptionsErrorUnnamed(name) == Err("network options not found", 0)

\* setup.rs:75-79, 139-143
MissingOptionsError(name) ==
    Err("network options for network " \o name \o " not found", 0)

NextNetwork(p) ==
    /\ pc[p] = "next_network"
    /\ idx[p] <= Len(opts[p].network_info)
    /\ IF network(p).driver \in {"bridge", "macvlan"}
       THEN IF net_name(p) \in DOMAIN opts[p].networks
            THEN Goto(p, network(p).driver)
            ELSE Return(p, MissingOptionsError(net_name(p)))
       ELSE Return(p, UnknownDriverError(network(p).driver))
    /\ UNCHANGED <<opts, idx, sysctl_read, response, stdout, log,
                   sysctl, fw_rules, host_nets>>

\* mutant of RecordStatus: the map is rebuilt for every network
RecordStatusFresh(r, name, status_block) == MapPut(EmptyMap, name, status_block)

\* setup.rs:87, 151
RecordStatus(r, name, status_block) == MapPut(r, name, status_block)

\* setup.rs:82-87
BridgePerPodmanNetwork(p) ==
    /\ pc[p] = "bridge"
    /\ LET sb == StatusBlock("bridge", per_network_opts(p), network(p),
                             NamespacePath(p))
       IN \E ok \in BOOLEAN :
            /\ Logged(p, Call("bridge_per_podman_network", net_name(p),
                              [per_network_opts |-> per_network_opts(p),
                               network |-> network(p),
                               netns |-> NamespacePath(p), ret |-> sb], ok))
            /\ IF ok
               THEN /\ response' = [response EXCEPT
                                      ![p] = RecordStatus(@, net_name(p), sb)]
                    /\ host_nets' = host_nets \cup {<<NamespacePath(p), net_name(p)>>}
                    /\ Goto(p, "setup_network")
               ELSE /\ Return(p, Err("bridge setup failed", 0))
                    /\ UNCHANGED <<response, host_nets>>
    /\ UNCHANGED <<opts, idx, sysctl_read, stdout, sysctl, fw_rules>>

\* mutant of AfterSetupNetwork: the addresses are looked up straight after
\* setup_network, before the route_localnet ensure
AfterSetupNetworkAddressesFirst(p) ==
    IF ~opts[p].port_mappings.some
    THEN "next_network"
    ELSE IF network(p).network_interface.some
            /\ per_network_opts(p).static_ips.some
            /\ network(p).subnets.some
         THEN "get_localnet"
         ELSE "setup_port_forward"

\* mutant of AfterSetupNetwork: the port mappings are consumed by the first
\* network, later networks get no port forwarding
AfterSetupNetworkFirstOnly(p) ==
    IF ~opts[p].port_mappings.some \/ idx[p] > 1
    THEN "next_network"
    ELSE IF network(p).network_interface.some
         THEN "get_localnet"
         ELSE "setup_port_forward"

\* setup.rs:95-112: what follows setup_network
AfterSetupNetwork(p) ==
    IF ~opts[p].port_mappings.some
    THEN "next_network"
    ELSE IF network(p).network_interface.some
         THEN "get_localnet"
         ELSE "setup_port_forward"

\* mutant of SetupNetwork: the result of setup_network is dropped, and exec
\* goes on after a failure as after a success
SetupNetworkIgnoringFailure(p) ==
    /\ pc[p] = "setup_network"
    /\ \E ok \in BOOLEAN :
        /\ Logged(p, Call("setup_network", net_name(p),
                          [network |-> network(p),
                           id_network_hash |-> id_network_hash(p)], ok))
        /\ fw_rules' = IF ok
                       THEN fw_rules \cup
                            {[kind |-> "network", name |-> id_network_hash(p),
                              container_id |-> "", network_name |-> net_name(p)]}
                       ELSE fw_rules
        /\ IF AfterSetupNetwork(p) = "next_network"
           THEN Advance(p)
           ELSE Goto(p, AfterSetupNetwork(p)) /\ UNCHANGED idx
    /\ UNCHANGED <<opts, sysctl_read, response, stdout, sysctl, host_nets>>

\* setup.rs:89-112
SetupNetwork(p) ==
    /\ pc[p] = "setup_network"
    /\ \E ok \in BOOLEAN :
        /\ Logged(p, Call("setup_network", net_name(p),
                          [network |-> network(p),
                           id_network_hash |-> id_network_hash(p)], ok))
        /\ IF ok
           THEN /\ fw_rules' = fw_rules \cup
                        {[kind |-> "network", name |-> id_network_hash(p),
                          container_id |-> "", network_name |-> net_name(p)]}
                /\ IF AfterSetupNetwork(p) = "next_network"
                   THEN Advance(p)
                   ELSE Goto(p, AfterSetupNetwork(p)) /\ UNCHANGED idx
           ELSE /\ Return(p, Err("setup_network failed", 0))
                /\ UNCHANGED <<fw_rules, idx>>
    /\ UNCHANGED <<opts, sysctl_read, response, stdout, sysctl, host_nets>>

\* setup.rs:113-133
SetupPortForward(p) ==
    /\ pc[p] = "setup_port_forward"
    /\ IF ~per_network_opts(p).static_ips.some
       THEN /\ Return(p, Err("no container ip provided", 0))
            /\ UNCHANGED <<log, fw_rules, idx>>
       ELSE IF ~network(p).subnets.some
       THEN /\ Return(p, Err("no network address provided", 0))
            /\ UNCHANGED <<log, fw_rules, idx>>
       ELSE IF PortForwardPanics(p)
       THEN /\ Return(p, Panicked("index out of bounds"))
            /\ UNCHANGED <<log, fw_rules, idx>>
       ELSE \E ok \in BOOLEAN :
            /\ Logged(p, Call("setup_port_forward", net_name(p),
                              PortForwardArgs(p), ok))
            /\ IF ok
               THEN /\ fw_rules' = fw_rules \cup
                            {[kind |-> "port_forward",
                              name |-> PortForwardArgs(p).id_network_hash,
                              container_id |-> PortForwardArgs(p).container_id,
                              network_name |-> PortForwardArgs(p).network_name]}
                    /\ Advance(p)
               ELSE /\ Return(p, Err("setup_port_forward failed", 0))
                    /\ UNCHANGED <<fw_rules, idx>>
    /\ UNCHANGED <<opts, sysctl_read, response, stdout, sysctl, host_nets>>

\* mutant of MacvlanPerPodmanNetwork: the macvlan arm goes on to the
\* firewall step as the bridge arm does
MacvlanWithFirewall(p) ==
    /\ pc[p] = "macvlan"
    /\ LET sb == StatusBlock("macvlan", per_network_opts(p), network(p),
                             NamespacePath(p))
       IN \E ok \in BOOLEAN :
            /\ Logged(p, Call("macvlan_per_podman_network", net_name(p),
                              [per_network_opts |-> per_network_opts(p),
                               network |-> network(p),
                               netns |-> NamespacePath(p), ret |-> sb], ok))
            /\ IF ok
               THEN /\ response' = [response EXCEPT
                                      ![p] = RecordStatus(@, net_name(p), sb)]
                    /\ host_nets' = host_nets \cup {<<NamespacePath(p), net_name(p)>>}
                    /\ Goto(p, "setup_network")
               ELSE /\ Return(p, Err("macvlan setup failed", 0))
                    /\ UNCHANGED <<response, host_nets>>
    /\ UNCHANGED <<opts, idx, sysctl_read, stdout, sysctl, fw_rules>>

\* mutant of MacvlanPerPodmanNetwork: a macvlan network with a bound host
\* interface gets the route_localnet ensure of the bridge arm
MacvlanEnsuringLocalnet(p) ==
    /\ pc[p] = "macvlan"
    /\ LET sb == StatusBlock("macvlan", per_network_opts(p), network(p),
                             NamespacePath(p))
       IN \E ok \in BOOLEAN :
            /\ Logged(p, Call("macvlan_per_podman_network", net_name(p),
                              [per_network_opts |-> per_network_opts(p),
                               network |-> network(p),
                               netns |-> NamespacePath(p), ret |-> sb], ok))
            /\ IF ok
               THEN /\ response' = [response EXCEPT
                                      ![p] = RecordStatus(@, net_name(p), sb)]
                    /\ host_nets' = host_nets \cup {<<NamespacePath(p), net_name(p)>>}
                    /\ IF network(p).network_interface.some
                       THEN Goto(p, "get_localnet") /\ UNCHANGED idx
                       ELSE Advance(p)
               ELSE /\ Return(p, Err("macvlan setup failed", 0))
                    /\ UNCHANGED <<response, host_nets, idx>>
    /\ UNCHANGED <<opts, sysctl_read, stdout, sysctl, fw_rules>>

\* setup.rs:146-151
MacvlanPerPodmanNetwork(p) ==
    /\ pc[p] = "macvlan"
    /\ LET sb == StatusBlock("macvlan", per_network_opts(p), network(p),
                             NamespacePath(p))
       IN \E ok \in BOOLEAN :
            /\ Logged(p, Call("macvlan_per_podman_network", net_name(p),
                              [per_network_opts |-> per_network_opts(p),
                               network |-> network(p),
                               netns |-> NamespacePath(p), ret |-> sb], ok))
            /\ IF ok
               THEN /\ response' = [response EXCEPT
                                      ![p] = RecordStatus(@, net_name(p), sb)]
                    /\ host_nets' = host_nets \cup {<<NamespacePath(p), net_name(p)>>}
                    /\ Advance(p)
               ELSE /\ Return(p, Err("macvlan setup failed", 0))
                    /\ UNCHANGED <<response, host_nets, idx>>
    /\ UNCHANGED <<opts, sysctl_read, stdout, sysctl, fw_rules>>

\* setup.rs:164-168
Emit(p) ==
    /\ pc[p] = "next_network"
    /\ idx[p] > Len(opts[p].network_info)
    /\ stdout' = [stdout EXCEPT ![p] = Append(@, response[p])]
    /\ Return(p, Ok)
    /\ UNCHANGED <<opts, idx, sysctl_read, response, log,
                   sysctl, fw_rules, host_nets>>

----------------------------------------------------------------------------
(* Specification: one invocation of `netavark setup` on a host.            *)

InitFor(active) ==
    /\ pc = [p \in Procs |-> IF p \in active THEN "ns_checks" ELSE "off"]
    /\ opts = [p \in Procs |-> NoOptions]
    /\ idx = [p \in Procs |-> 1]
    /\ sysctl_read = [p \in Procs |-> ""]
    /\ response = [p \in Procs |-> EmptyMap]
    /\ result = [p \in Procs |-> Running]
    /\ stdout = [p \in Procs |-> <<>>]
    /\ log = [p \in Procs |-> <<>>]
    /\ sysctl \in [SysctlKeys -> SysctlValues]
    /\ fw_rules = {}
    /\ host_nets = {}

Init == InitFor({1})

Next ==
    \E p \in Procs :
        \/ NsChecks(p)
        \/ Load(p)
        \/ GetFirewallDriver(p)
        \/ GetSysctlValue(p)
        \/ SetSysctlValue(p)
        \/ NextNetwork(p)
        \/ BridgePerPodmanNetwork(p)
        \/ SetupNetwork(p)
        \/ SetupPortForward(p)
        \/ MacvlanPerPodmanNetwork(p)
        \/ Emit(p)

Spec == Init /\ [][Next]_vars

----------------------------------------------------------------------------
(* Specification: two invocations, for two containers, run concurrently on *)
(* one host and share its sysctl table and firewall rule store.            *)

InitPair == InitFor(Procs)

NextPair ==
    \E p \in Procs :
        \/ NsChecks(p)
        \/ LoadPair(p)
        \/ GetFirewallDriver(p)
        \/ GetSysctlValue(p)
        \/ SetSysctlValue(p)
        \/ NextNetwork(p)
        \/ BridgePerPodmanNetwork(p)
        \/ SetupNetwork(p)
        \/ SetupPortForward(p)
        \/ MacvlanPerPodmanNetwork(p)
        \/ Emit(p)

SpecPair == InitPair /\ [][NextPair]_vars

----------------------------------------------------------------------------
(* Vocabulary of the properties.                                           *)

Active == {p \in Procs : pc[p] # "off"}

\* positions of the log of p that hold a call of `op`
CallsOf(p, op) == {i \in DOMAIN log[p] : log[p][i].op = op}
\* ... made for network n
CallsFor(p, op, n) == {i \in CallsOf(p, op) : log[p][i].net = n}
\* positions of the log that read or write sysctl key k
SysctlCalls(p, op, k) == {i \in CallsOf(p, op) : log[p][i].arg.key = k}

Nets(p) == DOMAIN opts[p].network_info
NetName(p, j) == opts[p].network_info[j].name
Driver(p, j) == opts[p].network_info[j].network.driver

\* exec got past namespace validation, config load and driver selection
PassedSelection(p) ==
    /\ pc[p] \notin {"off", "ns_checks", "load", "get_firewall_driver"}
    /\ pc[p] = "done" =>
        /\ result[p] # Err("invalid namespace path: " \o NamespacePath(p), 0)
        /\ result[p] # LoadError("cannot load network options")
        /\ result[p] # Panicked("no supported firewall backend")

Succeeded(p) == pc[p] = "done" /\ result[p].kind = "ok"

----------------------------------------------------------------------------
(* C1: once namespace validation, config load and firewall-driver          *)
(* selection have passed, net.ipv4.ip_forward is ensured exactly once      *)
(* (one read, at most one write of "1"), and that ensure is the first      *)
(* thing exec does: no constructor, firewall call or other sysctl key      *)
(* comes before it, however many networks there are.                       *)
C1_IpForwardOnceFirst ==
    \A p \in Active :
        /\ ~PassedSelection(p) => log[p] = <<>>
        /\ pc[p] = "get_ip_forward" => log[p] = <<>>
        /\ PassedSelection(p) /\ pc[p] # "get_ip_forward" =>
            /\ SysctlCalls(p, "get_sysctl_value", IPV4_FORWARD) = {1}
            /\ SysctlCalls(p, "set_sysctl_value", IPV4_FORWARD) \subseteq {2}
            /\ \A i \in SysctlCalls(p, "set_sysctl_value", IPV4_FORWARD) :
                  log[p][i].arg.val = "1"
            /\ pc[p] = "set_ip_forward" => Len(log[p]) = 1

\* two networks were set up, with a second sysctl key ensured on the way
C1_Witness ==
    \E p \in Active :
        /\ Succeeded(p)
        /\ Len(opts[p].network_info) = 2
        /\ CallsOf(p, "setup_port_forward") # {}
        /\ \E i \in CallsOf(p, "get_sysctl_value") :
              log[p][i].arg.key # IPV4_FORWARD
        /\ Cardinality(SysctlCalls(p, "get_sysctl_value", IPV4_FORWARD)) = 1

----------------------------------------------------------------------------
(* C2: when exec succeeds it has printed one Response, whose keys are      *)
(* exactly the network names of network_info and whose entry for a network *)
(* is the StatusBlock that the constructor of that network's driver        *)
(* returned for it.                                                        *)
ConstructorOf(driver) ==
    IF driver = "bridge" THEN "bridge_per_podman_network"
                         ELSE "macvlan_per_podman_network"

C2_ResponseMatchesConstructors ==
    \A p \in Active :
        Succeeded(p) =>
            /\ Len(stdout[p]) = 1
            /\ DOMAIN stdout[p][1] = {NetName(p, j) : j \in Nets(p)}
            /\ \A j \in Nets(p) :
                /\ Cardinality(CallsFor(p, ConstructorOf(Driver(p, j)),
                                        NetName(p, j))) = 1
                /\ \A i \in CallsFor(p, ConstructorOf(Driver(p, j)), NetName(p, j)) :
                      /\ log[p][i].ok
                      /\ stdout[p][1][NetName(p, j)] = log[p][i].arg.ret

\* a bridge and a macvlan network, no port mappings, exec succeeded
C2_Witness ==
    \E p \in Active :
        /\ Succeeded(p)
        /\ Len(opts[p].network_info) = 2
        /\ {Driver(p, j) : j \in Nets(p)} = {"bridge", "macvlan"}
        /\ ~opts[p].port_mappings.some
        /\ Cardinality(DOMAIN stdout[p][1]) = 2

----------------------------------------------------------------------------
(* C3: setup_network is called at most once per network, only for bridge   *)
(* networks whose constructor succeeded, never for a macvlan network, and   *)
(* exactly once as soon as exec is past that call; one bridge and one       *)
(* macvlan network without port mappings give one call in total.            *)
BridgeBuilt(p, j) ==
    \E i \in CallsFor(p, "bridge_per_podman_network", NetName(p, j)) : log[p][i].ok

C3_SetupNetworkOncePerBridge ==
    \A p \in Active :
        /\ \A j \in Nets(p) :
            LET calls == CallsFor(p, "setup_network", NetName(p, j)) IN
            /\ Cardinality(calls) <= 1
            /\ calls # {} => Driver(p, j) = "bridge" /\ BridgeBuilt(p, j)
            /\ BridgeBuilt(p, j) /\ ~(pc[p] = "setup_network" /\ idx[p] = j)
                  => Cardinality(calls) = 1
        /\ \A i \in CallsOf(p, "setup_network") :
              \E j \in Nets(p) : log[p][i].net = NetName(p, j)
        /\ ( /\ Succeeded(p)
             /\ Len(opts[p].network_info) = 2
             /\ {Driver(p, j) : j \in Nets(p)} = {"bridge", "macvlan"}
             /\ ~opts[p].port_mappings.some )
           => Cardinality(CallsOf(p, "setup_network")) = 1

\* exec succeeded on a macvlan network followed by a bridge network
C3_Witness ==
    \E p \in Active :
        /\ Succeeded(p)
        /\ Len(opts[p].network_info) = 2
        /\ Driver(p, 1) = "macvlan" /\ Driver(p, 2) = "bridge"
        /\ ~opts[p].port_mappings.some
        /\ Cardinality(CallsOf(p, "setup_network")) = 1

----------------------------------------------------------------------------
(* C4: when the loop reaches a network whose driver is neither bridge nor  *)
(* macvlan, exec returns an unknown-driver error naming that driver without *)
(* making another call; nothing is ever done for that network or a later   *)
(* one, and the networks before it stay configured: their interfaces exist, *)
(* the bridge ones keep their firewall chain, nothing is rolled back.      *)
UnknownDriver(p, j) == Driver(p, j) \notin {"bridge", "macvlan"}

HostState == <<sysctl, fw_rules, host_nets>>

\* network j of p was set up: interfaces created and, for a bridge, the
\* firewall chain of the network installed
Configured(p, j) ==
    /\ <<NamespacePath(p), NetName(p, j)>> \in host_nets
    /\ Driver(p, j) = "bridge" =>
          \E r \in fw_rules : r.kind = "network" /\ r.network_name = NetName(p, j)

AtUnknownDriver(p) ==
    pc[p] = "next_network" /\ idx[p] \in Nets(p) /\ UnknownDriver(p, idx[p])

C4_UnknownDriverState ==
    \A p \in Active :
        /\ \A j \in Nets(p) : UnknownDriver(p, j) =>
            /\ idx[p] <= j
            /\ \A k \in Nets(p) : k >= j =>
                  \A i \in DOMAIN log[p] : log[p][i].net # NetName(p, k)
            /\ ~Succeeded(p)
        /\ \A j \in Nets(p) :
              (AtUnknownDriver(p) /\ idx[p] = j)
              \/ (pc[p] = "done" /\ result[p] = UnknownDriverError(Driver(p, j)))
              => \A k \in 1..(idx[p] - 1) : Configured(p, k)
        /\ pc[p] = "done" => stdout[p] = <<>> \/ Succeeded(p)

C4_UnknownDriverStep ==
    \A p \in Procs :
        /\ AtUnknownDriver(p) =>
            /\ pc'[p] = "done"
            /\ result'[p].kind = "err"
            /\ result'[p].msg = "unknown network driver " \o Driver(p, idx[p])
            /\ UNCHANGED <<log, stdout, response, idx, HostState>>
        /\ pc[p] = "done" => UNCHANGED <<pc, result, log, stdout, HostState>>

C4_UnknownDriverFailsFast == []C4_UnknownDriverState /\ [][C4_UnknownDriverStep]_vars

\* the unknown driver is second, and the first network was applied
C4_Witness ==
    \E p \in Active :
        /\ pc[p] = "done"
        /\ Len(opts[p].network_info) = 2
        /\ result[p] = Err("unknown network driver vlan99", 0)
        /\ Driver(p, 1) = "bridge" /\ Driver(p, 2) = "vlan99"
        /\ idx[p] = 2
        /\ Configured(p, 1)
        /\ CallsOf(p, "setup_port_forward") # {}

----------------------------------------------------------------------------
(* C5: every setup_port_forward call is for a bridge network with port     *)
(* mappings present and passes the first static IP of that network's       *)
(* options, the first subnet of the network, and a rule-handle prefix of    *)
(* exactly MAX_HASH_SIZE characters (the handle passed to setup_network);   *)
(* later static IPs and subnets are never passed.                           *)
C5_PortForwardUsesFirst ==
    \A p \in Active :
        \A i \in CallsOf(p, "setup_port_forward") :
            \E j \in Nets(p) :
                LET a == log[p][i].arg
                    ips == opts[p].networks[NetName(p, j)].static_ips
                    sns == opts[p].network_info[j].network.subnets
                IN  /\ log[p][i].net = NetName(p, j)
                    /\ a.network_name = NetName(p, j)
                    /\ Driver(p, j) = "bridge"
                    /\ opts[p].port_mappings.some
                    /\ a.port_mappings = opts[p].port_mappings.val
                    /\ ips.some /\ Len(ips.val) >= 1
                    /\ sns.some /\ Len(sns.val) >= 1
                    /\ a.container_ip = ips.val[1]
                    /\ a.subnet = sns.val[1].subnet
                    /\ \A k \in 2..Len(ips.val) : a.container_ip # ips.val[k]
                    /\ \A k \in 2..Len(sns.val) : a.subnet # sns.val[k].subnet
                    /\ Len(a.id_network_hash) = MAX_HASH_SIZE
                    /\ \A h \in CallsFor(p, "setup_network", NetName(p, j)) :
                          a.id_network_hash = log[p][h].arg.id_network_hash

\* a call was made for a network with two static IPs and two subnets
C5_Witness ==
    \E p \in Active :
        \E i \in CallsOf(p, "setup_port_forward") :
            /\ log[p][i].ok
            /\ Len(opts[p].networks[log[p][i].net].static_ips.val) = 2
            /\ log[p][i].arg.container_ip = "10.88.0.5"
            /\ log[p][i].arg.subnet = "10.88.0.0/24"
            /\ Len(opts[p].port_mappings.val) = 1
            /\ \E j \in Nets(p) :
                  /\ NetName(p, j) = log[p][i].net
                  /\ Len(opts[p].network_info[j].network.subnets.val) = 2

----------------------------------------------------------------------------
(* C6: for a bridge network with port mappings requested whose static-IP   *)
(* list or subnet list is absent or empty, exec returns an ordinary error: *)
(* it does not panic, does not go on to the next network, and never calls  *)
(* setup_port_forward for that network.                                    *)
Missing(optlist) == ~optlist.some \/ Len(optlist.val) = 0

\* network j of p asks for port forwarding without an address to forward to
LacksAddress(p, j) ==
    /\ Driver(p, j) = "bridge"
    /\ opts[p].port_mappings.some /\ Len(opts[p].port_mappings.val) >= 1
    /\ NetName(p, j) \in DOMAIN opts[p].networks
    /\ \/ Missing(opts[p].networks[NetName(p, j)].static_ips)
       \/ Missing(opts[p].network_info[j].network.subnets)

C6_MissingAddressIsError ==
    \A p \in Active :
        \A j \in Nets(p) : LacksAddress(p, j) =>
            /\ CallsFor(p, "setup_port_forward", NetName(p, j)) = {}
            /\ idx[p] <= j
            /\ result[p] # Panicked("index out of bounds")
            /\ ( /\ pc[p] = "done"
                 /\ \E i \in CallsFor(p, "setup_network", NetName(p, j)) : log[p][i].ok )
               => result[p].kind = "err"

----------------------------------------------------------------------------
(* C7: when the port-mapping list is absent or empty, setup_port_forward   *)
(* is never called, no route_localnet key is read or written, and the      *)
(* static-IP/subnet requirement is not applied.                            *)
NoPortMappings(p) == Missing(opts[p].port_mappings)

C7_NoPortForwardWithoutMappings ==
    \A p \in Active :
        NoPortMappings(p) =>
            /\ CallsOf(p, "setup_port_forward") = {}
            /\ \A i \in CallsOf(p, "get_sysctl_value") \cup CallsOf(p, "set_sysctl_value") :
                  log[p][i].arg.key = IPV4_FORWARD
            /\ result[p].msg \notin {"no container ip provided",
                                     "no network address provided",
                                     "index out of bounds"}

----------------------------------------------------------------------------
(* C8: when no supported firewall backend is found, exec returns an        *)
(* ordinary error to its caller, it does not panic, and no sysctl,         *)
(* constructor or firewall operation has been performed.                   *)
C8_NoBackendIsError ==
    \A p \in Active :
        (pc[p] = "done" /\ opts[p] # NoOptions /\ log[p] = <<>>) =>
            /\ result[p].kind = "err"
            /\ fw_rules = {} /\ host_nets = {} /\ stdout[p] = <<>>

----------------------------------------------------------------------------
(* C9: a failed namespace validation or a failed load makes exec return an *)
(* error (with errno = 1 for the load) in that very step, with no sysctl   *)
(* read or write, no constructor call, no firewall call and no Response:   *)
(* the host is as it was.                                                  *)
C9_EarlyFailureStep ==
    \A p \in Procs :
        /\ pc[p] \in {"ns_checks", "load"} =>
              UNCHANGED <<log, stdout, response, HostState>>
        /\ pc[p] \in {"ns_checks", "load"} /\ pc'[p] = "done" =>
              /\ result'[p].kind = "err"
              /\ pc[p] = "load" => result'[p].errno = 1

C9_EarlyFailureState ==
    \A p \in Active :
        (pc[p] \in {"ns_checks", "load"} \/ (pc[p] = "done" /\ opts[p] = NoOptions)) =>
            /\ log[p] = <<>> /\ stdout[p] = <<>> /\ response[p] = EmptyMap
            /\ fw_rules = {} /\ host_nets = {}
            /\ pc[p] = "done" => result[p].kind = "err"

C9_EarlyFailureLeavesHostAlone == []C9_EarlyFailureState /\ [][C9_EarlyFailureStep]_vars

\* the load failed and nothing was touched
C9_Witness ==
    \E p \in Active :
        /\ pc[p] = "done"
        /\ result[p].kind = "err" /\ result[p].errno = 1
        /\ log[p] = <<>>

----------------------------------------------------------------------------
(* C10: a sysctl ensure writes nothing when the value read is "1" and      *)
(* writes "1" exactly once when it is not; every write follows the read of *)
(* the same key; a successful write leaves the key at "1"; and a later     *)
(* ensure of a key already ensured reads "1" and writes nothing.           *)
IsGet(p, i) == log[p][i].op = "get_sysctl_value"
IsSet(p, i) == log[p][i].op = "set_sysctl_value"
SetPending(p) == pc[p] \in {"set_ip_forward", "set_localnet"}

C10_EnsureWritesAtMostOnce ==
    \A p \in Active :
        /\ \A i \in DOMAIN log[p] : IsGet(p, i) /\ log[p][i].ok =>
            IF log[p][i].arg.val = "1"
            THEN /\ i = Len(log[p]) => ~SetPending(p)
                 /\ i < Len(log[p]) => ~IsSet(p, i + 1)
            ELSE \/ i = Len(log[p]) /\ SetPending(p)
                                    /\ SysctlKey(p) = log[p][i].arg.key
                 \/ /\ i < Len(log[p])
                    /\ IsSet(p, i + 1)
                    /\ log[p][i + 1].arg = [key |-> log[p][i].arg.key, val |-> "1"]
        /\ \A i \in DOMAIN log[p] :
              IsGet(p, i) /\ log[p][i].ok /\ log[p][i].arg.val = "1"
              => sysctl[log[p][i].arg.key] = "1"
        /\ \A i \in DOMAIN log[p] : IsSet(p, i) =>
            /\ i > 1
            /\ IsGet(p, i - 1) /\ log[p][i - 1].ok
            /\ log[p][i - 1].arg.key = log[p][i].arg.key
            /\ log[p][i - 1].arg.val # "1"
            /\ log[p][i].ok => sysctl[log[p][i].arg.key] = "1"
        /\ SetPending(p) => Len(log[p]) >= 1 /\ IsGet(p, Len(log[p]))
        /\ \A i, j \in DOMAIN log[p] :
              ( /\ i < j
                /\ IsGet(p, i) /\ IsGet(p, j)
                /\ log[p][i].arg.key = log[p][j].arg.key
                /\ log[p][j].ok )
              => /\ log[p][j].arg.val = "1"
                 /\ j < Len(log[p]) => ~IsSet(p, j + 1)

\* route_localnet of eth0 was "0": the first bridge network wrote it, the
\* second one read "1" and wrote nothing
C10_Witness ==
    \E p \in Active :
        LET gets == SysctlCalls(p, "get_sysctl_value", LocalnetPath("eth0"))
            sets == SysctlCalls(p, "set_sysctl_value", LocalnetPath("eth0"))
        IN  /\ Succeeded(p)
            /\ Cardinality(gets) = 2
            /\ Cardinality(sets) = 1
            /\ \E i \in gets : log[p][i].arg.val = "0"
            /\ \E i \in gets : log[p][i].arg.val = "1"
            /\ sysctl[LocalnetPath("eth0")] = "1"

----------------------------------------------------------------------------
(* C11: every error is fail-fast.  A call that failed is the last call of  *)
(* the invocation: nothing is called after it, it is not retried, exec has *)
(* returned an error and printed no Response.  What earlier calls applied  *)
(* stays applied.  The Response is printed at most once, and only when     *)
(* every network was set up and no call failed.                            *)
Failed(p) == result[p].kind \in {"err", "panic"}

\* what the successful calls of p applied is on the host
EffectsInPlace(p) ==
    \A i \in DOMAIN log[p] : log[p][i].ok =>
        /\ log[p][i].op \in {"bridge_per_podman_network", "macvlan_per_podman_network"}
              => <<NamespacePath(p), log[p][i].net>> \in host_nets
        /\ log[p][i].op = "setup_network" =>
              \E r \in fw_rules : /\ r.kind = "network"
                                  /\ r.name = log[p][i].arg.id_network_hash
        /\ log[p][i].op = "setup_port_forward" =>
              \E r \in fw_rules : /\ r.kind = "port_forward"
                                  /\ r.container_id = log[p][i].arg.container_id
                                  /\ r.network_name = log[p][i].net
        /\ log[p][i].op = "set_sysctl_value" => sysctl[log[p][i].arg.key] = "1"

C11_FailFastState ==
    \A p \in Active :
        /\ \A i \in DOMAIN log[p] : ~log[p][i].ok =>
            /\ i = Len(log[p])
            /\ pc[p] = "done" /\ result[p].kind = "err"
        /\ Failed(p) => pc[p] = "done" /\ stdout[p] = <<>>
        /\ EffectsInPlace(p)
        /\ Len(stdout[p]) <= 1
        /\ stdout[p] # <<>> =>
            /\ Succeeded(p)
            /\ \A i \in DOMAIN log[p] : log[p][i].ok
            /\ \A j \in Nets(p) :
                  \E i \in CallsFor(p, ConstructorOf(Driver(p, j)), NetName(p, j)) :
                      log[p][i].ok

C11_FailFastStep ==
    \A p \in Procs :
        /\ pc[p] = "done" =>
              /\ pc'[p] = "done" /\ result'[p] = result[p]
              /\ log'[p] = log[p] /\ stdout'[p] = stdout[p]
        /\ pc'[p] = "done" /\ pc[p] # "done" /\ Failed(p)' =>
              /\ stdout'[p] = <<>>
              /\ host_nets' = host_nets /\ fw_rules' = fw_rules /\ sysctl' = sysctl
        /\ host_nets \subseteq host_nets' /\ fw_rules \subseteq fw_rules'

C11_FailFast == []C11_FailFastState /\ [][C11_FailFastStep]_vars

\* setup_port_forward failed for the second network, after the first was
\* set up completely
C11_Witness ==
    \E p \in Active :
        /\ pc[p] = "done" /\ result[p] = Err("setup_port_forward failed", 0)
        /\ idx[p] = 2
        /\ ~log[p][Len(log[p])].ok
        /\ Configured(p, 1)
        /\ stdout[p] = <<>>

----------------------------------------------------------------------------
(* C12: networks are processed in the insertion order of network_info.     *)
(* Every call made for a network comes before every call made for a        *)
(* network inserted after it, the network being processed is the idx-th    *)
(* inserted, and no network is touched before all networks inserted before *)
(* it were constructed: the order is fixed by the NetworkOptions.          *)
\* position in network_info of the network a call was made for
PositionOf(p, n) == CHOOSE j \in Nets(p) : NetName(p, j) = n

PerNetworkCalls(p) == {i \in DOMAIN log[p] : log[p][i].net # ""}

InNetworkStep(p) ==
    pc[p] \in {"bridge", "macvlan", "setup_network", "get_localnet",
               "set_localnet", "setup_port_forward"}

C12_InsertionOrder ==
    \A p \in Active :
        /\ \A i \in PerNetworkCalls(p) :
              \E j \in Nets(p) : NetName(p, j) = log[p][i].net
        /\ \A i1, i2 \in PerNetworkCalls(p) :
              PositionOf(p, log[p][i1].net) < PositionOf(p, log[p][i2].net)
              => i1 < i2
        /\ \A i \in PerNetworkCalls(p) :
              /\ PositionOf(p, log[p][i].net) <= idx[p]
              /\ \A k \in 1..(PositionOf(p, log[p][i].net) - 1) :
                    \E h \in 1..(i - 1) :
                        /\ log[p][h].net = NetName(p, k)
                        /\ log[p][h].op = ConstructorOf(Driver(p, k))
                        /\ log[p][h].ok
        /\ InNetworkStep(p) => net_name(p) = NetName(p, idx[p])

\* both networks were set up, the first inserted first
C12_Witness ==
    \E p \in Active :
        /\ Succeeded(p)
        /\ Len(opts[p].network_info) = 2
        /\ opts[p].port_mappings.some
        /\ Driver(p, 1) = "bridge" /\ Driver(p, 2) = "bridge"
        /\ log[p][2].net = "podman"
        /\ log[p][Len(log[p])].net = "mv0"
        /\ log[p][Len(log[p])].op = "setup_port_forward"

----------------------------------------------------------------------------
(* C13: a network with a known driver and no entry in networks makes exec  *)
(* fail with an error naming that network; no Network Constructor,         *)
(* setup_network or setup_port_forward call is ever made for it.           *)
KnownDriver(p, j) == Driver(p, j) \in {"bridge", "macvlan"}

LacksOptions(p, j) ==
    /\ j \in Nets(p)
    /\ KnownDriver(p, j)
    /\ NetName(p, j) \notin DOMAIN opts[p].networks

AtMissingOptions(p) ==
    /\ pc[p] = "next_network"
    /\ idx[p] \in Nets(p)
    /\ LacksOptions(p, idx[p])

NamesNetwork(msg, name) ==
    \E i \in 1..Len(msg) :
        /\ i + Len(name) - 1 <= Len(msg)
        /\ SubSeq(msg, i, i + Len(name) - 1) = name

C13_MissingOptionsState ==
    \A p \in Active : \A j \in Nets(p) :
        LacksOptions(p, j)
        => /\ \A i \in DOMAIN log[p] : log[p][i].net # NetName(p, j)
           /\ NetName(p, j) \notin DOMAIN response[p]
           /\ idx[p] <= j
           /\ ~Succeeded(p)
           /\ stdout[p] = <<>>

C13_MissingOptionsStep ==
    \A p \in Active :
        AtMissingOptions(p) /\ pc'[p] # pc[p]
        => /\ pc'[p] = "done"
           /\ result'[p].kind = "err"
           /\ NamesNetwork(result'[p].msg, net_name(p))
           /\ log' = log
           /\ HostState' = HostState

C13_MissingOptions ==
    []C13_MissingOptionsState /\ [][C13_MissingOptionsStep]_vars

\* the second network lacks its options; the first was fully set up
C13_Witness ==
    \E p \in Active :
        /\ LacksOptions(p, 2)
        /\ pc[p] = "done"
        /\ result[p] = MissingOptionsError("mv0")
        /\ \E i \in DOMAIN log[p] :
              log[p][i].op = "setup_network" /\ log[p][i].ok

----------------------------------------------------------------------------
(* C15: for a macvlan network exec makes one call, the macvlan Network     *)
(* Constructor, and records its StatusBlock: no setup_network, no          *)
(* setup_port_forward, no sysctl read or write, whatever the port mappings *)
(* and the bound host interface of the network.                            *)
IsMacvlan(p, j) == j \in Nets(p) /\ Driver(p, j) = "macvlan"

C15_MacvlanState ==
    \A p \in Active : \A j \in Nets(p) :
        IsMacvlan(p, j)
        => /\ \A i \in DOMAIN log[p] :
                 log[p][i].net = NetName(p, j)
                 => log[p][i].op = "macvlan_per_podman_network"
           /\ Cardinality(CallsFor(p, "macvlan_per_podman_network",
                                   NetName(p, j))) <= 1
           /\ (pc[p] \in {"setup_network", "get_localnet", "set_localnet",
                          "setup_port_forward"} => idx[p] # j)

C15_MacvlanStep ==
    \A p \in Active :
        pc[p] = "macvlan" /\ pc'[p] # pc[p]
        => /\ sysctl' = sysctl
           /\ fw_rules' = fw_rules
           /\ sysctl_read' = sysctl_read
           /\ \/ /\ pc'[p] = "next_network"
                 /\ idx'[p] = idx[p] + 1
                 /\ response'[p] = RecordStatus(response[p], net_name(p),
                        StatusBlock("macvlan", per_network_opts(p),
                                    network(p), NamespacePath(p)))
              \/ /\ pc'[p] = "done"
                 /\ result'[p].kind = "err"
                 /\ response' = response

C15_MacvlanOnlyConstructs == []C15_MacvlanState /\ [][C15_MacvlanStep]_vars

\* a macvlan network with a bound host interface was set up by an invocation
\* that has port mappings
C15_Witness ==
    \E p \in Active : \E j \in Nets(p) :
        /\ IsMacvlan(p, j)
        /\ opts[p].network_info[j].network.network_interface = Some("eth0")
        /\ opts[p].port_mappings.some
        /\ Len(opts[p].port_mappings.val) >= 1
        /\ Succeeded(p)
        /\ CallsFor(p, "macvlan_per_podman_network", NetName(p, j)) # {}

----------------------------------------------------------------------------
(* C19: the static IPs and subnets that port forwarding needs are looked   *)
(* up only at the end of the bridge arm.  When exec fails for want of      *)
(* them, the bridge constructor and setup_network have succeeded for that  *)
(* network and, if it has a bound host interface, its route_localnet key   *)
(* has been ensured; the failing step changes nothing on the host.         *)
AddressFailures ==
    {Err("no container ip provided", 0), Err("no network address provided", 0),
     Panicked("index out of bounds")}

FailedForAddress(p) == pc[p] = "done" /\ result[p] \in AddressFailures

LocalnetEnsured(p, j) ==
    LET k == LocalnetPath(opts[p].network_info[j].network.network_interface.val) IN
    /\ \/ \E i \in SysctlCalls(p, "get_sysctl_value", k) :
             log[p][i].ok /\ log[p][i].arg.val = "1" /\ log[p][i].net = NetName(p, j)
       \/ \E i \in SysctlCalls(p, "set_sysctl_value", k) :
             log[p][i].ok /\ log[p][i].arg.val = "1" /\ log[p][i].net = NetName(p, j)
    /\ sysctl[k] = "1"

C19_LateCheckState ==
    \A p \in Active :
        FailedForAddress(p)
        => /\ idx[p] \in Nets(p)
           /\ Driver(p, idx[p]) = "bridge"
           /\ opts[p].port_mappings.some
           /\ \/ Missing(opts[p].networks[NetName(p, idx[p])].static_ips)
              \/ Missing(opts[p].network_info[idx[p]].network.subnets)
           /\ BridgeBuilt(p, idx[p])
           /\ \E i \in CallsFor(p, "setup_network", NetName(p, idx[p])) : log[p][i].ok
           /\ Configured(p, idx[p])
           /\ NetName(p, idx[p]) \in DOMAIN response[p]
           /\ opts[p].network_info[idx[p]].network.network_interface.some
                 => LocalnetEnsured(p, idx[p])
           /\ CallsFor(p, "setup_port_forward", NetName(p, idx[p])) = {}

C19_LateCheckStep ==
    \A p \in Active :
        result'[p] \in AddressFailures /\ result[p] \notin AddressFailures
        => /\ pc[p] = "setup_port_forward"
           /\ pc'[p] = "done"
           /\ HostState' = HostState
           /\ log' = log
           /\ response' = response

C19_AddressCheckedLate == []C19_LateCheckState /\ [][C19_LateCheckStep]_vars

\* no static IPs: exec failed after writing the route_localnet key of eth0
C19_Witness ==
    \E p \in Active :
        /\ FailedForAddress(p)
        /\ result[p] = Err("no container ip provided", 0)
        /\ opts[p].network_info[idx[p]].network.network_interface = Some("eth0")
        /\ \E i \in SysctlCalls(p, "set_sysctl_value", LocalnetPath("eth0")) :
              log[p][i].ok
        /\ Configured(p, idx[p])

----------------------------------------------------------------------------
(* C20: port mappings belong to the invocation.  When they are present and *)
(* exec succeeds, setup_port_forward was called exactly once per bridge    *)
(* network (k calls for k bridge networks), every call with the container  *)
(* id and the whole port-mapping list of the invocation and with the name, *)
(* rule handle, first static IP and first subnet of its own network.       *)
BridgeNets(p) == {j \in Nets(p) : Driver(p, j) = "bridge"}

ExpectedPortForward(p, j) ==
    [container_id |-> opts[p].container_id,
     port_mappings |-> opts[p].port_mappings.val,
     container_ip |-> opts[p].networks[NetName(p, j)].static_ips.val[1],
     subnet |-> opts[p].network_info[j].network.subnets.val[1].subnet,
     network_name |-> NetName(p, j),
     id_network_hash |-> create_network_hash(NetName(p, j), MAX_HASH_SIZE)]

C20_PortForwardPerBridge ==
    \A p \in Active :
        /\ \A j \in Nets(p) :
              LET calls == CallsFor(p, "setup_port_forward", NetName(p, j)) IN
              /\ Cardinality(calls) <= 1
              /\ calls # {} => j \in BridgeNets(p) /\ opts[p].port_mappings.some
              /\ \A i \in calls : log[p][i].arg = ExpectedPortForward(p, j)
        /\ Succeeded(p) /\ opts[p].port_mappings.some
           => /\ \A j \in BridgeNets(p) :
                    \E i \in CallsFor(p, "setup_port_forward", NetName(p, j)) :
                        log[p][i].ok
              /\ Cardinality(CallsOf(p, "setup_port_forward"))
                    = Cardinality(BridgeNets(p))

\* two bridge networks, one non-empty port-mapping list, two calls
C20_Witness ==
    \E p \in Active :
        /\ Succeeded(p)
        /\ opts[p].port_mappings.some
        /\ Len(opts[p].port_mappings.val) >= 1
        /\ Cardinality(BridgeNets(p)) = 2
        /\ Cardinality(CallsOf(p, "setup_port_forward")) = 2

----------------------------------------------------------------------------
(* C14: the rule handle passed to setup_network, and as prefix to          *)
(* setup_port_forward, depends on the network name only.  Two invocations  *)
(* with different container ids, namespace paths, port mappings and other  *)
(* networks pass the same handle for a bridge network of the same name,    *)
(* and every handle has exactly MAX_HASH_SIZE characters.                  *)
\* the handles invocation p passed for network n, to either operation
HandlesFor(p, n) ==
    {log[p][i].arg.id_network_hash :
        i \in CallsFor(p, "setup_network", n) \cup CallsFor(p, "setup_port_forward", n)}

Handles(p) == UNION {HandlesFor(p, NetName(p, j)) : j \in Nets(p)}

C14_HandleFromNameAlone ==
    /\ \A p \in Active : \A h \in Handles(p) : Len(h) = MAX_HASH_SIZE
    /\ \A p, q \in Active : \A j \in Nets(p) :
          \A h1 \in HandlesFor(p, NetName(p, j)) :
          \A h2 \in HandlesFor(q, NetName(p, j)) : h1 = h2

\* both invocations passed a handle for "podman"; they differ in container
\* id, port mappings and in the other networks present
C14_Witness ==
    /\ HandlesFor(1, "podman") # {}
    /\ HandlesFor(2, "podman") # {}
    /\ opts[1].container_id # opts[2].container_id
    /\ opts[1].port_mappings # opts[2].port_mappings
    /\ Len(opts[1].network_info) # Len(opts[2].network_info)
    /\ CallsFor(1, "setup_port_forward", "podman") # {}

----------------------------------------------------------------------------
(* C17: two invocations ensure net.ipv4.ip_forward concurrently.  Each     *)
(* writes the key at most once; both may read a value other than "1" and   *)
(* then both write; once both ensures are complete the key holds "1"; and  *)
(* no step of either changes the key from "1" to another value.            *)
IpForwardWrites(p) == SysctlCalls(p, "set_sysctl_value", IPV4_FORWARD)

\* the ensure of p is over: it read "1", or its write succeeded
IpForwardEnsured(p) ==
    \/ \E i \in SysctlCalls(p, "get_sysctl_value", IPV4_FORWARD) :
          log[p][i].ok /\ log[p][i].arg.val = "1"
    \/ \E i \in IpForwardWrites(p) : log[p][i].ok

C17_RaceState ==
    /\ \A p \in Active :
          /\ Cardinality(IpForwardWrites(p)) <= 1
          /\ \A i \in IpForwardWrites(p) : log[p][i].arg.val = "1"
    /\ (\A p \in Procs : IpForwardEnsured(p)) => sysctl[IPV4_FORWARD] = "1"

C17_RaceStep == sysctl[IPV4_FORWARD] = "1" => sysctl'[IPV4_FORWARD] = "1"

C17_ConcurrentEnsure == []C17_RaceState /\ [][C17_RaceStep]_vars

\* both invocations read the stale "0" and both wrote "1"
C17_Witness ==
    \A p \in Procs :
        /\ \E i \in SysctlCalls(p, "get_sysctl_value", IPV4_FORWARD) :
              log[p][i].ok /\ log[p][i].arg.val = "0"
        /\ \E i \in IpForwardWrites(p) : log[p][i].ok

----------------------------------------------------------------------------
(* C18: the names of port-forward rules come from the rule handle, which   *)
(* is computed from the network name.  Rules of different containers share *)
(* their name exactly when they are on the same network; rules on          *)
(* different networks never do, and no rule is removed or replaced by      *)
(* another invocation's setup_port_forward.                                *)
PortForwardRules == {r \in fw_rules : r.kind = "port_forward"}

\* the rules of two different containers
RulePairs ==
    {rr \in PortForwardRules \X PortForwardRules :
        rr[1].container_id # rr[2].container_id}

C18_SharedPerNetworkState ==
    /\ \A rr \in RulePairs :
          rr[1].name = rr[2].name <=> rr[1].network_name = rr[2].network_name
    /\ \A p \in Active : \A i \in CallsOf(p, "setup_port_forward") :
          log[p][i].ok
          => [kind |-> "port_forward",
              name |-> log[p][i].arg.id_network_hash,
              container_id |-> opts[p].container_id,
              network_name |-> log[p][i].net] \in fw_rules

C18_SharedPerNetworkStep == fw_rules \subseteq fw_rules'

----------------------------------------------------------------------------
(* C16: net.ipv4.conf.<iface>.route_localnet is ensured for a network if   *)
(* and only if the network is a bridge network, the invocation has port    *)
(* mappings and the network declares the bound host interface <iface>.     *)
(* The ensure comes after setup_network and before setup_port_forward of   *)
(* that network, and touches the key of no other interface.                *)
IfaceOf(p, j) == opts[p].network_info[j].network.network_interface

\* positions of the log of p that read or write a sysctl key for network n
LocalnetCalls(p, n) ==
    CallsFor(p, "get_sysctl_value", n) \cup CallsFor(p, "set_sysctl_value", n)

NeedsLocalnet(p, j) ==
    /\ Driver(p, j) = "bridge"
    /\ ~NoPortMappings(p)
    /\ IfaceOf(p, j).some

\* exec is past the place of the ensure for network j
PastLocalnet(p, j) ==
    \/ idx[p] > j
    \/ idx[p] = j /\ pc[p] = "setup_port_forward"
    \/ CallsFor(p, "setup_port_forward", NetName(p, j)) # {}

C16_LocalnetIffNeeded ==
    \A p \in Active : \A j \in Nets(p) :
        LET n == NetName(p, j) IN
        /\ LocalnetCalls(p, n) # {} => NeedsLocalnet(p, j)
        /\ \A i \in LocalnetCalls(p, n) :
              /\ IfaceOf(p, j).some
              /\ log[p][i].arg.key = LocalnetPath(IfaceOf(p, j).val)
              /\ \E h \in CallsFor(p, "setup_network", n) : h < i /\ log[p][h].ok
              /\ \A h \in CallsFor(p, "setup_port_forward", n) : i < h
        /\ NeedsLocalnet(p, j) /\ PastLocalnet(p, j)
           => \E i \in LocalnetCalls(p, n) :
                 /\ log[p][i].ok
                 /\ log[p][i].arg.val = "1"
                 /\ log[p][i].arg.key = LocalnetPath(IfaceOf(p, j).val)

====
